---- MODULE Spec2Model ----
(***************************************************************************)
(* Model of downloader.py: the batch client of the "WiFi Photo Transfer"   *)
(* web server.  One run of the script is one behaviour: argument           *)
(* validation, album and index resolution from two HTML pages, range       *)
(* planning, the per-block request / poll / download / extract loop, the   *)
(* final archiving, and the try/finally that removes the download          *)
(* directory.  The server's answers and the zip files it sends are the     *)
(* inputs, chosen at the step that receives them.                          *)
(*                                                                         *)
(* Text is a sequence of characters, so that strip(), the two regular      *)
(* expressions and int() are computed and not assumed.  A printable ASCII  *)
(* character is the one-character string of itself, tab, line feed, form   *)
(* feed and carriage return are "\t", "\n", "\f" and "\r", and every other *)
(* character is the string "U+" followed by its code point in at least     *)
(* four hexadecimal digits: "U+00A0" is the no-break space and "U+0663"    *)
(* the Arabic-Indic digit three.                                           *)
(* Python's None is the empty tuple and a value v that may be None is the  *)
(* one-element tuple <<v>>.                                                *)
(***************************************************************************)
EXTENDS Integers, Sequences, FiniteSets, TLC

None == <<>>

Some(v) == <<v>>

Val(o) == o[1]

(***************************************************************************)
(* Text helpers: str.strip(), \d, int()                                    *)
(***************************************************************************)
\* the characters for which str.isspace() is true: what str.strip() removes
Whitespace ==
    {"\t", "\n", "U+000B", "\f", "\r", "U+001C", "U+001D", "U+001E",
     "U+001F", " ", "U+0085", "U+00A0", "U+1680", "U+2000", "U+2001",
     "U+2002", "U+2003", "U+2004", "U+2005", "U+2006", "U+2007", "U+2008",
     "U+2009", "U+200A", "U+2028", "U+2029", "U+202F", "U+205F", "U+3000"}

\* the decimal digits \d matches in a str pattern, one row per script, each
\* row in the order of the values 0..9 that int() gives its characters
DigitScripts ==
    <<<<"0", "1", "2", "3", "4", "5", "6", "7", "8", "9">>,
       <<"U+0660", "U+0661", "U+0662", "U+0663", "U+0664", "U+0665", "U+0666", "U+0667", "U+0668", "U+0669">>,
       <<"U+06F0", "U+06F1", "U+06F2", "U+06F3", "U+06F4", "U+06F5", "U+06F6", "U+06F7", "U+06F8", "U+06F9">>,
       <<"U+07C0", "U+07C1", "U+07C2", "U+07C3", "U+07C4", "U+07C5", "U+07C6", "U+07C7", "U+07C8", "U+07C9">>,
       <<"U+0966", "U+0967", "U+0968", "U+0969", "U+096A", "U+096B", "U+096C", "U+096D", "U+096E", "U+096F">>,
       <<"U+09E6", "U+09E7", "U+09E8", "U+09E9", "U+09EA", "U+09EB", "U+09EC", "U+09ED", "U+09EE", "U+09EF">>,
       <<"U+0A66", "U+0A67", "U+0A68", "U+0A69", "U+0A6A", "U+0A6B", "U+0A6C", "U+0A6D", "U+0A6E", "U+0A6F">>,
       <<"U+0AE6", "U+0AE7", "U+0AE8", "U+0AE9", "U+0AEA", "U+0AEB", "U+0AEC", "U+0AED", "U+0AEE", "U+0AEF">>,
       <<"U+0B66", "U+0B67", "U+0B68", "U+0B69", "U+0B6A", "U+0B6B", "U+0B6C", "U+0B6D", "U+0B6E", "U+0B6F">>,
       <<"U+0BE6", "U+0BE7", "U+0BE8", "U+0BE9", "U+0BEA", "U+0BEB", "U+0BEC", "U+0BED", "U+0BEE", "U+0BEF">>,
       <<"U+0C66", "U+0C67", "U+0C68", "U+0C69", "U+0C6A", "U+0C6B", "U+0C6C", "U+0C6D", "U+0C6E", "U+0C6F">>,
       <<"U+0CE6", "U+0CE7", "U+0CE8", "U+0CE9", "U+0CEA", "U+0CEB", "U+0CEC", "U+0CED", "U+0CEE", "U+0CEF">>,
       <<"U+0D66", "U+0D67", "U+0D68", "U+0D69", "U+0D6A", "U+0D6B", "U+0D6C", "U+0D6D", "U+0D6E", "U+0D6F">>,
       <<"U+0DE6", "U+0DE7", "U+0DE8", "U+0DE9", "U+0DEA", "U+0DEB", "U+0DEC", "U+0DED", "U+0DEE", "U+0DEF">>,
       <<"U+0E50", "U+0E51", "U+0E52", "U+0E53", "U+0E54", "U+0E55", "U+0E56", "U+0E57", "U+0E58", "U+0E59">>,
       <<"U+0ED0", "U+0ED1", "U+0ED2", "U+0ED3", "U+0ED4", "U+0ED5", "U+0ED6", "U+0ED7", "U+0ED8", "U+0ED9">>,
       <<"U+0F20", "U+0F21", "U+0F22", "U+0F23", "U+0F24", "U+0F25", "U+0F26", "U+0F27", "U+0F28", "U+0F29">>,
       <<"U+1040", "U+1041", "U+1042", "U+1043", "U+1044", "U+1045", "U+1046", "U+1047", "U+1048", "U+1049">>,
       <<"U+1090", "U+1091", "U+1092", "U+1093", "U+1094", "U+1095", "U+1096", "U+1097", "U+1098", "U+1099">>,
       <<"U+17E0", "U+17E1", "U+17E2", "U+17E3", "U+17E4", "U+17E5", "U+17E6", "U+17E7", "U+17E8", "U+17E9">>,
       <<"U+1810", "U+1811", "U+1812", "U+1813", "U+1814", "U+1815", "U+1816", "U+1817", "U+1818", "U+1819">>,
       <<"U+1946", "U+1947", "U+1948", "U+1949", "U+194A", "U+194B", "U+194C", "U+194D", "U+194E", "U+194F">>,
       <<"U+19D0", "U+19D1", "U+19D2", "U+19D3", "U+19D4", "U+19D5", "U+19D6", "U+19D7", "U+19D8", "U+19D9">>,
       <<"U+1A80", "U+1A81", "U+1A82", "U+1A83", "U+1A84", "U+1A85", "U+1A86", "U+1A87", "U+1A88", "U+1A89">>,
       <<"U+1A90", "U+1A91", "U+1A92", "U+1A93", "U+1A94", "U+1A95", "U+1A96", "U+1A97", "U+1A98", "U+1A99">>,
       <<"U+1B50", "U+1B51", "U+1B52", "U+1B53", "U+1B54", "U+1B55", "U+1B56", "U+1B57", "U+1B58", "U+1B59">>,
       <<"U+1BB0", "U+1BB1", "U+1BB2", "U+1BB3", "U+1BB4", "U+1BB5", "U+1BB6", "U+1BB7", "U+1BB8", "U+1BB9">>,
       <<"U+1C40", "U+1C41", "U+1C42", "U+1C43", "U+1C44", "U+1C45", "U+1C46", "U+1C47", "U+1C48", "U+1C49">>,
       <<"U+1C50", "U+1C51", "U+1C52", "U+1C53", "U+1C54", "U+1C55", "U+1C56", "U+1C57", "U+1C58", "U+1C59">>,
       <<"U+A620", "U+A621", "U+A622", "U+A623", "U+A624", "U+A625", "U+A626", "U+A627", "U+A628", "U+A629">>,
       <<"U+A8D0", "U+A8D1", "U+A8D2", "U+A8D3", "U+A8D4", "U+A8D5", "U+A8D6", "U+A8D7", "U+A8D8", "U+A8D9">>,
       <<"U+A900", "U+A901", "U+A902", "U+A903", "U+A904", "U+A905", "U+A906", "U+A907", "U+A908", "U+A909">>,
       <<"U+A9D0", "U+A9D1", "U+A9D2", "U+A9D3", "U+A9D4", "U+A9D5", "U+A9D6", "U+A9D7", "U+A9D8", "U+A9D9">>,
       <<"U+A9F0", "U+A9F1", "U+A9F2", "U+A9F3", "U+A9F4", "U+A9F5", "U+A9F6", "U+A9F7", "U+A9F8", "U+A9F9">>,
       <<"U+AA50", "U+AA51", "U+AA52", "U+AA53", "U+AA54", "U+AA55", "U+AA56", "U+AA57", "U+AA58", "U+AA59">>,
       <<"U+ABF0", "U+ABF1", "U+ABF2", "U+ABF3", "U+ABF4", "U+ABF5", "U+ABF6", "U+ABF7", "U+ABF8", "U+ABF9">>,
       <<"U+FF10", "U+FF11", "U+FF12", "U+FF13", "U+FF14", "U+FF15", "U+FF16", "U+FF17", "U+FF18", "U+FF19">>,
       <<"U+104A0", "U+104A1", "U+104A2", "U+104A3", "U+104A4", "U+104A5", "U+104A6", "U+104A7", "U+104A8", "U+104A9">>,
       <<"U+10D30", "U+10D31", "U+10D32", "U+10D33", "U+10D34", "U+10D35", "U+10D36", "U+10D37", "U+10D38", "U+10D39">>,
       <<"U+11066", "U+11067", "U+11068", "U+11069", "U+1106A", "U+1106B", "U+1106C", "U+1106D", "U+1106E", "U+1106F">>,
       <<"U+110F0", "U+110F1", "U+110F2", "U+110F3", "U+110F4", "U+110F5", "U+110F6", "U+110F7", "U+110F8", "U+110F9">>,
       <<"U+11136", "U+11137", "U+11138", "U+11139", "U+1113A", "U+1113B", "U+1113C", "U+1113D", "U+1113E", "U+1113F">>,
       <<"U+111D0", "U+111D1", "U+111D2", "U+111D3", "U+111D4", "U+111D5", "U+111D6", "U+111D7", "U+111D8", "U+111D9">>,
       <<"U+112F0", "U+112F1", "U+112F2", "U+112F3", "U+112F4", "U+112F5", "U+112F6", "U+112F7", "U+112F8", "U+112F9">>,
       <<"U+11450", "U+11451", "U+11452", "U+11453", "U+11454", "U+11455", "U+11456", "U+11457", "U+11458", "U+11459">>,
       <<"U+114D0", "U+114D1", "U+114D2", "U+114D3", "U+114D4", "U+114D5", "U+114D6", "U+114D7", "U+114D8", "U+114D9">>,
       <<"U+11650", "U+11651", "U+11652", "U+11653", "U+11654", "U+11655", "U+11656", "U+11657", "U+11658", "U+11659">>,
       <<"U+116C0", "U+116C1", "U+116C2", "U+116C3", "U+116C4", "U+116C5", "U+116C6", "U+116C7", "U+116C8", "U+116C9">>,
       <<"U+11730", "U+11731", "U+11732", "U+11733", "U+11734", "U+11735", "U+11736", "U+11737", "U+11738", "U+11739">>,
       <<"U+118E0", "U+118E1", "U+118E2", "U+118E3", "U+118E4", "U+118E5", "U+118E6", "U+118E7", "U+118E8", "U+118E9">>,
       <<"U+11950", "U+11951", "U+11952", "U+11953", "U+11954", "U+11955", "U+11956", "U+11957", "U+11958", "U+11959">>,
       <<"U+11C50", "U+11C51", "U+11C52", "U+11C53", "U+11C54", "U+11C55", "U+11C56", "U+11C57", "U+11C58", "U+11C59">>,
       <<"U+11D50", "U+11D51", "U+11D52", "U+11D53", "U+11D54", "U+11D55", "U+11D56", "U+11D57", "U+11D58", "U+11D59">>,
       <<"U+11DA0", "U+11DA1", "U+11DA2", "U+11DA3", "U+11DA4", "U+11DA5", "U+11DA6", "U+11DA7", "U+11DA8", "U+11DA9">>,
       <<"U+16A60", "U+16A61", "U+16A62", "U+16A63", "U+16A64", "U+16A65", "U+16A66", "U+16A67", "U+16A68", "U+16A69">>,
       <<"U+16AC0", "U+16AC1", "U+16AC2", "U+16AC3", "U+16AC4", "U+16AC5", "U+16AC6", "U+16AC7", "U+16AC8", "U+16AC9">>,
       <<"U+16B50", "U+16B51", "U+16B52", "U+16B53", "U+16B54", "U+16B55", "U+16B56", "U+16B57", "U+16B58", "U+16B59">>,
       <<"U+1D7CE", "U+1D7CF", "U+1D7D0", "U+1D7D1", "U+1D7D2", "U+1D7D3", "U+1D7D4", "U+1D7D5", "U+1D7D6", "U+1D7D7">>,
       <<"U+1D7D8", "U+1D7D9", "U+1D7DA", "U+1D7DB", "U+1D7DC", "U+1D7DD", "U+1D7DE", "U+1D7DF", "U+1D7E0", "U+1D7E1">>,
       <<"U+1D7E2", "U+1D7E3", "U+1D7E4", "U+1D7E5", "U+1D7E6", "U+1D7E7", "U+1D7E8", "U+1D7E9", "U+1D7EA", "U+1D7EB">>,
       <<"U+1D7EC", "U+1D7ED", "U+1D7EE", "U+1D7EF", "U+1D7F0", "U+1D7F1", "U+1D7F2", "U+1D7F3", "U+1D7F4", "U+1D7F5">>,
       <<"U+1D7F6", "U+1D7F7", "U+1D7F8", "U+1D7F9", "U+1D7FA", "U+1D7FB", "U+1D7FC", "U+1D7FD", "U+1D7FE", "U+1D7FF">>,
       <<"U+1E140", "U+1E141", "U+1E142", "U+1E143", "U+1E144", "U+1E145", "U+1E146", "U+1E147", "U+1E148", "U+1E149">>,
       <<"U+1E2F0", "U+1E2F1", "U+1E2F2", "U+1E2F3", "U+1E2F4", "U+1E2F5", "U+1E2F6", "U+1E2F7", "U+1E2F8", "U+1E2F9">>,
       <<"U+1E950", "U+1E951", "U+1E952", "U+1E953", "U+1E954", "U+1E955", "U+1E956", "U+1E957", "U+1E958", "U+1E959">>,
       <<"U+1FBF0", "U+1FBF1", "U+1FBF2", "U+1FBF3", "U+1FBF4", "U+1FBF5", "U+1FBF6", "U+1FBF7", "U+1FBF8", "U+1FBF9">>>>

\* the digits str() writes
AsciiDigits == DigitScripts[1]

\* every character \d matches
DigitChars ==
    {DigitScripts[k][i] : k \in 1..Len(DigitScripts), i \in 1..10}

IsDigit(c) == c \in DigitChars

\* int(c) for one digit c
DigitVal(c) ==
    (CHOOSE i \in 1..10 : \E k \in 1..Len(DigitScripts) : DigitScripts[k][i] = c) - 1

RECURSIVE LStrip(_)
LStrip(s) ==
    IF s # <<>> /\ Head(s) \in Whitespace THEN LStrip(Tail(s)) ELSE s

RECURSIVE RStrip(_)
RStrip(s) ==
    IF s # <<>> /\ s[Len(s)] \in Whitespace
    THEN RStrip(SubSeq(s, 1, Len(s) - 1))
    ELSE s

\* data.strip()
Strip(s) == RStrip(LStrip(s))

\* the longest run of digits at the front of s: what a greedy (\d+) takes
RECURSIVE DigitRun(_)
DigitRun(s) ==
    IF s # <<>> /\ IsDigit(Head(s))
    THEN <<Head(s)>> \o DigitRun(Tail(s))
    ELSE <<>>

\* int(digits)
RECURSIVE IntOf(_)
IntOf(ds) ==
    IF ds = <<>> THEN 0
    ELSE IntOf(SubSeq(ds, 1, Len(ds) - 1)) * 10 + DigitVal(ds[Len(ds)])

\* re.match(r"/(\d+)/", path): group 1, or None when the path does not match
MatchAlbumId(path) ==
    IF path # <<>> /\ Head(path) = "/"
    THEN LET ds == DigitRun(Tail(path))
             rest == SubSeq(path, 2 + Len(ds), Len(path))
         IN  IF ds # <<>> /\ rest # <<>> /\ Head(rest) = "/"
             THEN Some(ds)
             ELSE None
    ELSE None

\* re.match(r"# (\d+)", text): group 1, or None when the text does not match
MatchFileNumber(text) ==
    IF Len(text) >= 3 /\ text[1] = "#" /\ text[2] = " "
    THEN LET ds == DigitRun(SubSeq(text, 3, Len(text)))
         IN  IF ds # <<>> THEN Some(ds) ELSE None
    ELSE None

(***************************************************************************)
(* HTML pages are the event sequences html.parser hands to the handlers    *)
(***************************************************************************)
StartTag(tag, attrs) == [type |-> "start", tag |-> tag, attrs |-> attrs, data |-> <<>>]

Data(text) == [type |-> "data", tag |-> "", attrs |-> <<>>, data |-> text]

EndTag(tag) == [type |-> "end", tag |-> tag, attrs |-> <<>>, data |-> <<>>]

(***************************************************************************)
(* class FindAlbumLink                                                     *)
(***************************************************************************)
FindAlbumLink_init ==
    [album_path |-> None, inside_link |-> FALSE, href |-> None]

\* the value of the first attribute named href, or the old self.href
RECURSIVE FirstHref(_, _)
FirstHref(attrs, old) ==
    IF attrs = <<>> THEN old
    ELSE IF Head(attrs)[1] = "href" THEN Head(attrs)[2]
    ELSE FirstHref(Tail(attrs), old)

FindAlbumLink_handle_starttag(self, tag, attrs) ==
    IF self.album_path # None THEN self
    ELSE IF tag = "a"
    THEN [self EXCEPT !.inside_link = TRUE, !.href = FirstHref(attrs, self.href)]
    ELSE self

FindAlbumLink_handle_data(self, album_name, data) ==
    IF ~self.inside_link THEN self
    ELSE IF Strip(data) = album_name
    THEN [self EXCEPT !.album_path = self.href]
    ELSE self

FindAlbumLink_handle_endtag(self, tag) ==
    IF tag = "a"
    THEN [self EXCEPT !.inside_link = FALSE, !.href = None]
    ELSE self

RECURSIVE FindAlbumLink_feed(_, _, _)
FindAlbumLink_feed(self, album_name, events) ==
    IF events = <<>> THEN self
    ELSE LET e == Head(events)
             next == CASE e.type = "start" ->
                            FindAlbumLink_handle_starttag(self, e.tag, e.attrs)
                       [] e.type = "data" ->
                            FindAlbumLink_handle_data(self, album_name, e.data)
                       [] OTHER ->
                            FindAlbumLink_handle_endtag(self, e.tag)
         IN  FindAlbumLink_feed(next, album_name, Tail(events))

(***************************************************************************)
(* class FindHighestFileNumber                                             *)
(***************************************************************************)
FindHighestFileNumber_init == [index |-> None]

FindHighestFileNumber_handle_data(self, data) ==
    IF self.index # None THEN self
    ELSE LET m == MatchFileNumber(Strip(data))
         IN  IF m # None THEN [self EXCEPT !.index = Some(IntOf(Val(m)))]
             ELSE self

RECURSIVE FindHighestFileNumber_feed(_, _)
FindHighestFileNumber_feed(self, events) ==
    IF events = <<>> THEN self
    ELSE LET e == Head(events)
             next == IF e.type = "data"
                     THEN FindHighestFileNumber_handle_data(self, e.data)
                     ELSE self
         IN  FindHighestFileNumber_feed(next, Tail(events))

(***************************************************************************)
(* Program constants                                                       *)
(***************************************************************************)
\* "WiFi photo app can only transfer in blocks of 200"
BlockSize == 200

\* for _ in range(5)
PollAttempts == 5

(***************************************************************************)
(* Bounds of the model and the inputs drawn within them                    *)
(***************************************************************************)
\* the largest index of the inputs lies in block number MaxBlocks
MaxBlocks == 3

Offsets == {1, 50, 150, BlockSize}

\* 0 is the argument the validation rejects and the index of an album
\* whose marker reads "# 0"
IndexValues ==
    {0} \cup {b * BlockSize + o : b \in 0..(MaxBlocks - 1), o \in Offsets}

AlbumName == <<"R", "e">>

\* the parsed command line: --start (default 1), --end (default None), album
ArgValues ==
    [start : IndexValues,
     end   : {None} \cup {Some(e) : e \in IndexValues},
     album : {AlbumName}]

\* download codes ('selid') the server may hand out
DownloadCodes == {"c1", "c2"}

\* str(n)
RECURSIVE ToDigits(_)
ToDigits(n) ==
    IF n < 10 THEN <<AsciiDigits[n + 1]>>
    ELSE ToDigits(n \div 10) \o <<AsciiDigits[(n % 10) + 1]>>

Anchor(href, text) ==
    <<StartTag("a", <<<<"href", Some(href)>>>>), Data(text), EndTag("a")>>

AlbumHref == <<"/", "7", "/", "i", "n", "d", "e", "x">>

\* the same album under an id written with an Arabic-Indic digit
ArabicHref == <<"/", "U+0667", "/", "i", "n", "d", "e", "x">>

\* listing pages: the album alone; the album second, its text padded; the
\* text between a line end of CR LF and a no-break space, the id in another
\* script; the name in another case; a link that does not start with
\* /<digits>/; no link
ListingPages ==
    { Anchor(AlbumHref, <<"R", "e">>),
      Anchor(<<"/", "3", "/", "x">>, <<"V", "i">>)
          \o Anchor(AlbumHref, <<" ", "R", "e", "\n">>),
      Anchor(ArabicHref, <<"\r", "\n", "R", "e", "U+00A0">>),
      Anchor(AlbumHref, <<"r", "e">>),
      Anchor(<<"i", "n", "d", "e", "x">>, <<"R", "e">>),
      <<>> }

\* "# <h> photos" inside a paragraph
MarkerPage(h) ==
    <<StartTag("p", <<>>),
      Data(<<" ", "#", " ">> \o ToDigits(h) \o <<" ", "p", "h">>),
      EndTag("p")>>

\* "# 450" in fullwidth digits, after a form feed and before a line end
FullwidthMarkerPage ==
    <<Data(<<"\f", "#", " ", "U+FF14", "U+FF15", "U+FF10", "\r", "\n">>)>>

\* album pages: one marker; one in another script; no marker; two markers,
\* the first one counts
AlbumPages ==
    {MarkerPage(h) : h \in IndexValues}
        \cup {FullwidthMarkerPage}
        \cup {<<Data(<<"#", "7">>)>>}
        \cup {MarkerPage(BlockSize + 1) \o MarkerPage(1)}

\* what one HTTP request can come to: request_or_exit exits, or a body
HttpFailed == [ok |-> FALSE]

HtmlResponses(pages) == {HttpFailed} \cup {[ok |-> TRUE, text |-> p] : p \in pages}

\* resp.json() of /startcompressing; json = None is a body from which no
\* 'selid' can be read, and an object may come with 'selid' but no 'ready'
CompressResponses ==
    {HttpFailed, [ok |-> TRUE, json |-> None]}
        \cup {[ok |-> TRUE, json |-> Some([selid |-> c])] : c \in DownloadCodes}
        \cup {[ok |-> TRUE, json |-> Some([selid |-> c, ready |-> r])] :
                 c \in DownloadCodes, r \in BOOLEAN}

ProgressResponses ==
    {HttpFailed, [ok |-> TRUE, json |-> None]}
        \cup {[ok |-> TRUE, json |-> Some([readyForDownload |-> r])] : r \in BOOLEAN}

\* resp.content of /zipdownload: a zip archive, or bytes that are no zip
ZipResponses ==
    {HttpFailed} \cup {[ok |-> TRUE, content |-> z] : z \in {"zip", "garbage"}}

(***************************************************************************)
(* State                                                                   *)
(***************************************************************************)
VARIABLES
    args,            \* parsed_args
    pc,              \* the statement the script is at
    outcome,         \* "running", "success", or the error that ended the run
    album_path,      \* main: album_path (None or the href)
    album_id,        \* main: album_id (None before it is set)
    highest_index,   \* main: highest_index (None or the number)
    start_index,     \* main: start_index
    end_index,       \* main: end_index
    blockstart,      \* main: blockstart
    blockend,        \* main: blockend
    download_code,   \* main: download_code (None before it is set)
    ready,           \* main: ready (None before it is set)
    poll_i,          \* iterations of "for _ in range(5)" completed
    dir_exists,      \* os.path.exists(download_dir)
    dir_files,       \* the entries of download_dir
    zip_content,     \* the bytes of download_dir/images.zip (None: no such file)
    archive,         \* download_dir.tar.gz: None, or the entries it holds
    dir_created,     \* history: os.mkdir(download_dir) succeeded in this run
    requests,        \* history: <<blockstart, blockend>> of each /startcompressing
    polls,           \* history: /compressprogress requests for the current block
    sleeps,          \* history: time.sleep(2) calls for the current block
    total_polls,     \* history: /compressprogress requests of the run
    downloads,       \* history: /zipdownload requests of the run
    extracts,        \* history: unpack_archive calls that returned
    not_ready,       \* history: /startcompressing answers with ready = false
    progress_ready,  \* history: a progress check of the current block said ready
    removed_by,      \* history: the rmtree calls that removed download_dir
    dir_preexisting, \* history: download_dir existed when the run started
    page_gets,       \* history: GET requests for the two HTML pages
    issued_code,     \* history: 'selid' of the latest /startcompressing answer
    sent_code,       \* history: the code in the latest progress or download URL
    finder,          \* a FindAlbumLink object being fed
    fed              \* history: the events fed to finder so far

vars ==
    <<args, pc, outcome, album_path, album_id, highest_index, start_index,
      end_index, blockstart, blockend, download_code, ready, poll_i,
      dir_exists, dir_files, zip_content, archive, dir_created, requests,
      polls, sleeps, total_polls, downloads, extracts, not_ready,
      progress_ready, removed_by, dir_preexisting, page_gets, issued_code,
      sent_code, finder, fed>>

parser == <<finder, fed>>

web == <<page_gets, issued_code, sent_code>>

locals ==
    <<album_path, album_id, highest_index, start_index, end_index,
      blockstart, blockend, download_code, ready, poll_i>>

disk == <<dir_exists, dir_files, zip_content, archive, dir_created, removed_by>>

history ==
    <<requests, polls, sleeps, total_polls, downloads, extracts, not_ready,
      progress_ready>>

ZipFile == <<"images.zip">>

OldFile == <<"old">>

BlockFiles(bs, be) == <<"block", bs, be>>

\* the run starts with or without a directory of the name download_dir
Init ==
    /\ args \in ArgValues
    /\ pc = "args"
    /\ outcome = "running"
    /\ album_path = None
    /\ album_id = None
    /\ highest_index = None
    /\ start_index = 0
    /\ end_index = 0
    /\ blockstart = 0
    /\ blockend = 0
    /\ download_code = None
    /\ ready = None
    /\ poll_i = 0
    /\ dir_exists \in BOOLEAN
    /\ dir_preexisting = dir_exists
    /\ page_gets = 0
    /\ issued_code = None
    /\ sent_code = None
    /\ finder = FindAlbumLink_init
    /\ fed = <<>>
    /\ dir_files = IF dir_exists THEN {OldFile} ELSE {}
    /\ zip_content = None
    /\ archive = None
    /\ dir_created = FALSE
    /\ requests = <<>>
    /\ polls = 0
    /\ sleeps = 0
    /\ total_polls = 0
    /\ downloads = 0
    /\ extracts = 0
    /\ not_ready = 0
    /\ progress_ready = FALSE
    /\ removed_by = <<>>

(***************************************************************************)
(* Pure steps of the script                                                *)
(***************************************************************************)
\* ArgsAccepted without the check "end < start"
ArgsAcceptedAnyOrder(a) ==
    IF a.start < 1 THEN FALSE
    ELSE IF a.end # None
    THEN IF Val(a.end) < 1 THEN FALSE ELSE TRUE
    ELSE TRUE

\* the checks after parser.parse_args(): TRUE when none of them exits
ArgsAccepted(a) ==
    IF a.start < 1 THEN FALSE
    ELSE IF a.end # None
    THEN IF Val(a.end) < 1 THEN FALSE
         ELSE IF Val(a.end) < a.start THEN FALSE
         ELSE TRUE
    ELSE TRUE

\* PlanEnd taking --end whenever it is given
PlanEndUnclamped(end, highest) ==
    IF end # None THEN Val(end) ELSE highest

\* end_index = highest_index, replaced by --end when that is smaller
PlanEnd(end, highest) ==
    IF end # None /\ Val(end) < highest THEN Val(end) ELSE highest

\* while True: if blockstart >= end_index: break
LoopBreaks(bs, end) == bs >= end

\* BlockEnd without the cut to end_index
BlockEndUncut(bs, end) == bs + BlockSize

\* blockend = blockstart + 200, cut to end_index
BlockEnd(bs, end) ==
    IF bs + BlockSize > end THEN end ELSE bs + BlockSize

\* range(blockstart, blockend): the indices 'sel' carries
Selection(bs, be) == bs..(be - 1)

\* EntersPolling with the test on ready dropped
EntersPollingAlways(r) == TRUE

\* if not ready: the polling loop is entered
EntersPolling(r) == ~r

\* NewDownloadCode that keeps the code of the first block
FirstDownloadCode(old, json) ==
    IF old = None THEN Some(json.selid) ELSE old

\* download_code = resp.json()['selid']
NewDownloadCode(old, json) == Some(json.selid)

\* BreaksLoop with the break left out
BreaksLoopNever(r) == FALSE

\* if resp.json()['readyForDownload']: break
BreaksLoop(r) == r

\* PollsExhausted one iteration late
PollsExhaustedLate(i) == i > PollAttempts

\* the for loop has run all its iterations after this many polls
PollsExhausted(i) == i >= PollAttempts

\* Fail that reports the error and runs the failed statement again
FailRetries(o) ==
    /\ outcome' = o
    /\ pc' = pc

\* Fail that reports the error and lets main() go on to os.mkdir
FailGoesOn(o) ==
    /\ outcome' = o
    /\ pc' = "mkdir"

\* sys.exit(message) or an uncaught exception inside main(): the finally
\* clause runs next
Fail(o) ==
    /\ outcome' = o
    /\ pc' = "finally"

(***************************************************************************)
(* The steps of the run                                                    *)
(***************************************************************************)
\* module level: the index checks on the arguments.  sys.exit here is
\* outside the try statement, so the finally clause does not run
ValidateArgs ==
    /\ pc = "args"
    /\ IF ArgsAccepted(args)
       THEN pc' = "get_listing" /\ outcome' = outcome
       ELSE pc' = "done" /\ outcome' = "ArgumentError"
    /\ UNCHANGED <<args, dir_preexisting, parser, web, locals, disk, history>>

\* "start > highest_index": the run exits before planning
StartExceeds(start, highest) == start > highest

\* main: GET url, feed the page to FindAlbumLink, take the album id
GetListing ==
    /\ pc = "get_listing"
    /\ page_gets' = page_gets + 1
    /\ \E resp \in HtmlResponses(ListingPages) :
          IF ~resp.ok
          THEN /\ Fail("HttpError")
               /\ UNCHANGED <<album_path, album_id>>
          ELSE LET found == FindAlbumLink_feed(FindAlbumLink_init,
                                               args.album, resp.text).album_path
               IN  /\ album_path' = found
                   /\ IF found = None
                      THEN Fail("AlbumNotFound") /\ album_id' = album_id
                      ELSE IF MatchAlbumId(Val(found)) = None
                      THEN Fail("AttributeError") /\ album_id' = album_id
                      ELSE /\ album_id' = MatchAlbumId(Val(found))
                           /\ pc' = "get_album"
                           /\ outcome' = outcome
    /\ UNCHANGED <<args, dir_preexisting, parser, <<issued_code, sent_code>>,
                   highest_index, start_index, end_index, blockstart,
                   blockend, download_code, ready, poll_i, disk, history>>

\* main: GET url + album_path, feed the page to FindHighestFileNumber,
\* check the index found and compute start_index and end_index
GetAlbumPage ==
    /\ pc = "get_album"
    /\ page_gets' = page_gets + 1
    /\ \E resp \in HtmlResponses(AlbumPages) :
          IF ~resp.ok
          THEN /\ Fail("HttpError")
               /\ UNCHANGED <<highest_index, start_index, end_index>>
          ELSE LET index == FindHighestFileNumber_feed(FindHighestFileNumber_init,
                                                       resp.text).index
               IN  /\ highest_index' = index
                   /\ IF index = None
                      THEN /\ Fail("NoFilesInAlbum")
                           /\ UNCHANGED <<start_index, end_index>>
                      ELSE IF StartExceeds(args.start, Val(index))
                      THEN /\ Fail("StartExceedsAvailable")
                           /\ UNCHANGED <<start_index, end_index>>
                      ELSE /\ start_index' = args.start
                           /\ end_index' = PlanEnd(args.end, Val(index))
                           /\ pc' = "mkdir"
                           /\ outcome' = outcome
    /\ UNCHANGED <<args, dir_preexisting, parser, <<issued_code, sent_code>>,
                   album_path, album_id, blockstart, blockend, download_code,
                   ready, poll_i, disk, history>>

\* MakeDir as os.makedirs(download_dir, exist_ok=True)
MakeDirExistOk ==
    /\ pc = "mkdir"
    /\ dir_exists' = TRUE
    /\ dir_created' = ~dir_exists
    /\ blockstart' = start_index - 1
    /\ pc' = "loop"
    /\ UNCHANGED <<outcome, dir_files>>
    /\ UNCHANGED <<args, dir_preexisting, parser, web, album_path, album_id,
                   highest_index, start_index, end_index, blockend,
                   download_code, ready, poll_i, zip_content, archive,
                   removed_by, history>>

\* main: os.mkdir(download_dir), which raises FileExistsError when the name
\* is taken; then blockstart = start_index - 1
MakeDir ==
    /\ pc = "mkdir"
    /\ IF dir_exists
       THEN /\ Fail("FileExistsError")
            /\ UNCHANGED <<blockstart, dir_exists, dir_files, dir_created>>
       ELSE /\ dir_exists' = TRUE
            /\ dir_files' = {}
            /\ dir_created' = TRUE
            /\ blockstart' = start_index - 1
            /\ pc' = "loop"
            /\ outcome' = outcome
    /\ UNCHANGED <<args, dir_preexisting, parser, web, album_path, album_id,
                   highest_index, start_index, end_index, blockend,
                   download_code, ready, poll_i, zip_content, archive,
                   removed_by, history>>

\* main: the head of the while loop: leave it, or fix the block's end
NextBlock ==
    /\ pc = "loop"
    /\ IF LoopBreaks(blockstart, end_index)
       THEN pc' = "remove_zip" /\ blockend' = blockend
       ELSE pc' = "post" /\ blockend' = BlockEnd(blockstart, end_index)
    /\ UNCHANGED <<args, dir_preexisting, parser, web, outcome, album_path,
                   album_id, highest_index, start_index, end_index,
                   blockstart, download_code, ready, poll_i, disk, history>>

\* main: POST /startcompressing with the block's selection; read 'selid'
\* and 'ready' and enter the polling loop when not ready
StartCompressing ==
    /\ pc = "post"
    /\ requests' = Append(requests, <<blockstart, blockend>>)
    /\ polls' = 0
    /\ sleeps' = 0
    /\ poll_i' = 0
    /\ progress_ready' = FALSE
    /\ \E resp \in CompressResponses :
          IF ~resp.ok
          THEN /\ Fail("HttpError")
               /\ UNCHANGED <<download_code, ready, not_ready, issued_code>>
          ELSE IF resp.json = None
          THEN /\ Fail("JSONError")
               /\ UNCHANGED <<download_code, ready, not_ready, issued_code>>
          ELSE IF "ready" \notin DOMAIN Val(resp.json)
          THEN \* 'selid' is assigned before the read of 'ready' raises KeyError
               /\ download_code' = NewDownloadCode(download_code, Val(resp.json))
               /\ issued_code' = Some(Val(resp.json).selid)
               /\ Fail("JSONError")
               /\ UNCHANGED <<ready, not_ready>>
          ELSE /\ download_code' = NewDownloadCode(download_code, Val(resp.json))
               /\ issued_code' = Some(Val(resp.json).selid)
               /\ ready' = Some(Val(resp.json).ready)
               /\ not_ready' = IF Val(resp.json).ready THEN not_ready
                                ELSE not_ready + 1
               /\ pc' = IF EntersPolling(Val(resp.json).ready)
                        THEN "sleep" ELSE "download"
               /\ outcome' = outcome
    /\ UNCHANGED <<args, dir_preexisting, parser, page_gets, sent_code,
                   album_path, album_id, highest_index, start_index,
                   end_index, blockstart, blockend, disk, total_polls,
                   downloads, extracts>>

\* main: time.sleep(2) at the top of each iteration of the polling loop
Sleep ==
    /\ pc = "sleep"
    /\ sleeps' = sleeps + 1
    /\ pc' = "poll"
    /\ UNCHANGED <<args, dir_preexisting, parser, web, outcome, locals, disk,
                   requests, polls, total_polls, downloads, extracts,
                   not_ready, progress_ready>>

\* main: GET /compressprogress<random>?<download_code>; break when ready,
\* and exit from the loop's else clause after the last iteration
PollProgress ==
    /\ pc = "poll"
    /\ sent_code' = download_code
    /\ polls' = polls + 1
    /\ total_polls' = total_polls + 1
    /\ \E resp \in ProgressResponses :
          IF ~resp.ok
          THEN Fail("HttpError") /\ UNCHANGED <<poll_i, progress_ready>>
          ELSE IF resp.json = None
          THEN Fail("JSONError") /\ UNCHANGED <<poll_i, progress_ready>>
          ELSE /\ progress_ready' = Val(resp.json).readyForDownload
               /\ IF BreaksLoop(Val(resp.json).readyForDownload)
                  THEN pc' = "download" /\ outcome' = outcome /\ poll_i' = poll_i
                  ELSE /\ poll_i' = poll_i + 1
                       /\ IF PollsExhausted(poll_i + 1)
                          THEN Fail("CompressionTimeout")
                          ELSE pc' = "sleep" /\ outcome' = outcome
    /\ UNCHANGED <<args, dir_preexisting, parser, page_gets, issued_code,
                   album_path, album_id, highest_index, start_index,
                   end_index, blockstart, blockend, download_code, ready,
                   disk, requests, sleeps, downloads, extracts, not_ready>>

\* main: GET /zipdownload/<download_code>/images.zip and write the bytes to
\* download_dir/images.zip, over the file of the block before
Download ==
    /\ pc = "download"
    /\ sent_code' = download_code
    /\ downloads' = downloads + 1
    /\ \E resp \in ZipResponses :
          IF ~resp.ok
          THEN Fail("HttpError") /\ UNCHANGED <<dir_files, zip_content>>
          ELSE /\ dir_files' = dir_files \cup {ZipFile}
               /\ zip_content' = Some(resp.content)
               /\ pc' = "extract"
               /\ outcome' = outcome
    /\ UNCHANGED <<args, dir_preexisting, parser, page_gets, issued_code,
                   locals, dir_exists, archive, dir_created, removed_by,
                   requests, polls, sleeps, total_polls, extracts, not_ready,
                   progress_ready>>

\* Extract with the unpack_archive call left out
ExtractSkipped ==
    /\ pc = "extract"
    /\ IF zip_content # Some("zip")
       THEN /\ Fail("ReadError")
            /\ UNCHANGED <<dir_files, extracts, blockstart>>
       ELSE /\ UNCHANGED <<dir_files, extracts>>
            /\ blockstart' = blockend
            /\ pc' = "loop"
            /\ outcome' = outcome
    /\ UNCHANGED <<args, dir_preexisting, parser, web, album_path, album_id,
                   highest_index, start_index, end_index, blockend,
                   download_code, ready, poll_i, dir_exists, zip_content,
                   archive, dir_created, removed_by, requests, polls, sleeps,
                   total_polls, downloads, not_ready, progress_ready>>

\* main: shutil.unpack_archive(zip_path, download_dir), which raises
\* ReadError on bytes that are no zip; then blockstart = blockend
Extract ==
    /\ pc = "extract"
    /\ IF zip_content # Some("zip")
       THEN /\ Fail("ReadError")
            /\ UNCHANGED <<dir_files, extracts, blockstart>>
       ELSE /\ dir_files' = dir_files \cup {BlockFiles(blockstart, blockend)}
            /\ extracts' = extracts + 1
            /\ blockstart' = blockend
            /\ pc' = "loop"
            /\ outcome' = outcome
    /\ UNCHANGED <<args, dir_preexisting, parser, web, album_path, album_id,
                   highest_index, start_index, end_index, blockend,
                   download_code, ready, poll_i, dir_exists, zip_content,
                   archive, dir_created, removed_by, requests, polls, sleeps,
                   total_polls, downloads, not_ready, progress_ready>>

\* RemoveZip with the os.remove call left out
RemoveZipSkipped ==
    /\ pc = "remove_zip"
    /\ pc' = "make_archive"
    /\ UNCHANGED <<args, dir_preexisting, parser, web, outcome, locals, disk,
                   history>>

\* main: os.remove(zip_path), which raises FileNotFoundError without the file
RemoveZip ==
    /\ pc = "remove_zip"
    /\ IF ZipFile \notin dir_files
       THEN Fail("FileNotFoundError") /\ UNCHANGED <<dir_files, zip_content>>
       ELSE /\ dir_files' = dir_files \ {ZipFile}
            /\ zip_content' = None
            /\ pc' = "make_archive"
            /\ outcome' = outcome
    /\ UNCHANGED <<args, dir_preexisting, parser, web, locals, dir_exists,
                   archive, dir_created, removed_by, history>>

\* main: shutil.make_archive(download_dir, "gztar", base_dir=download_dir)
MakeArchive ==
    /\ pc = "make_archive"
    /\ archive' = Some(dir_files)
    /\ pc' = "rmtree"
    /\ UNCHANGED <<args, dir_preexisting, parser, web, outcome, locals,
                   dir_exists, dir_files, zip_content, dir_created,
                   removed_by, history>>

\* RemoveDir with the rmtree call left out
RemoveDirSkipped ==
    /\ pc = "rmtree"
    /\ outcome' = "success"
    /\ pc' = "finally"
    /\ UNCHANGED <<args, dir_preexisting, parser, web, locals, disk, history>>

\* main: shutil.rmtree(download_dir), the last statement of main()
RemoveDir ==
    /\ pc = "rmtree"
    /\ dir_exists' = FALSE
    /\ dir_files' = {}
    /\ removed_by' = Append(removed_by, "main")
    /\ outcome' = "success"
    /\ pc' = "finally"
    /\ UNCHANGED <<args, dir_preexisting, parser, web, locals, zip_content,
                   archive, dir_created, history>>

\* Finally without the cleanup
FinallyKeepsDir ==
    /\ pc = "finally"
    /\ pc' = "done"
    /\ UNCHANGED <<args, dir_preexisting, parser, web, outcome, locals, disk,
                   history>>

\* module level: finally: if os.path.exists(download_dir): shutil.rmtree(...)
Finally ==
    /\ pc = "finally"
    /\ IF dir_exists
       THEN /\ dir_exists' = FALSE
            /\ dir_files' = {}
            /\ zip_content' = None
            /\ removed_by' = Append(removed_by, "finally")
       ELSE UNCHANGED <<dir_exists, dir_files, zip_content, removed_by>>
    /\ pc' = "done"
    /\ UNCHANGED <<args, dir_preexisting, parser, web, outcome, locals,
                   archive, dir_created, history>>

Next ==
    \/ ValidateArgs
    \/ GetListing
    \/ GetAlbumPage
    \/ MakeDir
    \/ NextBlock
    \/ StartCompressing
    \/ Sleep
    \/ PollProgress
    \/ Download
    \/ Extract
    \/ RemoveZip
    \/ MakeArchive
    \/ RemoveDir
    \/ Finally

Spec == Init /\ [][Next]_vars

\* the process's exit status
ExitStatus == IF outcome = "success" THEN 0 ELSE 1

(***************************************************************************)
(* Properties                                                              *)
(***************************************************************************)
Done == pc = "done"

\* the errors a step of block processing ends the run with
BlockErrors == {"HttpError", "JSONError", "CompressionTimeout", "ReadError"}

\* the run failed inside the block loop: after its first /startcompressing
BlockFailure == requests # <<>> /\ outcome \in BlockErrors

\* C1: when a step of block processing has failed (a request failed, a body
\* was malformed, polling timed out, extraction failed), the terminated run
\* leaves no download directory and no archive, whatever was extracted before
C1_FailureLeavesNothing ==
    (Done /\ BlockFailure) => (~dir_exists /\ dir_files = {} /\ archive = None)

\* C1 witness: the third block's zip cannot be extracted after two blocks were
C1_Witness ==
    /\ Done
    /\ outcome = "ReadError"
    /\ extracts = 2
    /\ Len(requests) = 3
    /\ removed_by = <<"finally">>

ReleasedByArchiving ==
    /\ removed_by = <<"main">>
    /\ archive # None
    /\ outcome = "success"
    /\ extracts = Len(requests)

ReleasedByDeletion ==
    /\ removed_by = <<"finally">>
    /\ archive = None
    /\ outcome # "success"

\* C2: a terminated run that created the download directory has removed it,
\* and in exactly one of two ways: at the end of main() after the archive was
\* made from it, or by the finally clause of a failed run with no archive
C2_ReleaseExclusiveExhaustive ==
    (Done /\ dir_created) =>
        /\ ~dir_exists
        /\ ReleasedByArchiving # ReleasedByDeletion

\* C2 witness: a run of two blocks that ended by archiving
C2_Witness ==
    /\ Done
    /\ dir_created
    /\ ReleasedByArchiving
    /\ Len(requests) = 2

\* C3: a block makes at most 5 progress checks; five answers "not ready" end
\* the run with the timeout error, and the timed-out run made exactly 5 checks
\* for the block, no download for it, no request for a later block, and has
\* no download directory once terminated
C3_PollTimeout ==
    /\ polls <= 5
    /\ (poll_i = 5) => (outcome = "CompressionTimeout")
    /\ (outcome = "CompressionTimeout") =>
          /\ pc \in {"finally", "done"}
          /\ ready = Some(FALSE)
          /\ polls = 5 /\ poll_i = 5
          /\ downloads = Len(requests) - 1
          /\ extracts = Len(requests) - 1
          /\ requests[Len(requests)] = <<blockstart, blockend>>
          /\ archive = None
          /\ Done => ~dir_exists

\* C3 witness: the second block timed out
C3_Witness ==
    /\ Done
    /\ outcome = "CompressionTimeout"
    /\ Len(requests) = 2
    /\ polls = 5

\* the block was not ready at once, a progress check has reported it ready
\* and its download is next or made
ReadyAfterPolling == pc \in {"download", "extract"} /\ progress_ready

\* C4: when the k-th progress check of a block is the first to report ready
\* (k - 1 checks answered "not ready"), the block has had exactly k checks,
\* 1 <= k <= 5, no pause or check follows the report, and the block's
\* download is the next request
C4_ExactlyKPolls ==
    /\ progress_ready =>
          /\ ready = Some(FALSE)
          /\ polls = poll_i + 1
          /\ polls \in 1..5
          /\ pc \notin {"sleep", "poll"}
          /\ outcome # "CompressionTimeout"
          /\ (pc = "download") => (downloads = Len(requests) - 1)
    /\ (pc = "extract") => (downloads = Len(requests))

\* C4 witness: the third check reported ready and the block was downloaded
C4_Witness ==
    /\ pc = "extract"
    /\ progress_ready
    /\ polls = 3
    /\ poll_i = 2

\* C5: pauses only separate consecutive checks: no pause before the first
\* check, and k - 1 pauses for a block that is ready on its k-th check
C5_PausesBetweenPolls ==
    /\ (pc = "poll" /\ polls = 0) => (sleeps = 0)
    /\ ReadyAfterPolling => (sleeps = polls - 1)

\* what the script does: one pause before every check
C5_PausePerPoll ==
    /\ (pc = "poll") => (sleeps = polls + 1)
    /\ ReadyAfterPolling => (sleeps = polls)

\* ceil((end - start + 1) / 200)
BlocksOf(start, end) == (end - start + 1 + 199) \div 200

\* C6: a successful run all of whose compression requests answered ready made
\* no progress check and no pause, made one request, one download and one
\* extraction per block, ceil((end - start + 1) / 200) of each, and ended
\* with the archive made and the directory removed
C6_AllReadyRun ==
    /\ (not_ready = 0) => (total_polls = 0 /\ sleeps = 0)
    /\ (Done /\ outcome = "success" /\ not_ready = 0) =>
          /\ Len(requests) = BlocksOf(start_index, end_index)
          /\ downloads = Len(requests)
          /\ extracts = Len(requests)
          /\ archive # None
          /\ ~dir_exists

\* C6 witness: range 1..450 (end omitted, highest index 450) in 3 cycles
C6_Witness ==
    /\ Done
    /\ outcome = "success"
    /\ not_ready = 0
    /\ args.start = 1
    /\ args.end = None
    /\ highest_index = Some(450)
    /\ Len(requests) = 3
    /\ total_polls = 0

RECURSIVE SumSizes(_)
SumSizes(rs) ==
    IF rs = <<>> THEN 0
    ELSE (Head(rs)[2] - Head(rs)[1]) + SumSizes(Tail(rs))

\* C7: the blocks requested are non-empty, of at most 200 indices, in
\* increasing order and contiguous from start - 1; a block shorter than 200
\* ends the range; and the blocks of a successful run cover the indices
\* start - 1 .. end - 1, each index once
C7_Blocks ==
    /\ \A i \in 1..Len(requests) :
          /\ requests[i][1] < requests[i][2]
          /\ requests[i][2] - requests[i][1] <= 200
          /\ requests[i][2] <= end_index
          /\ (requests[i][2] - requests[i][1] < 200) => (requests[i][2] = end_index)
          /\ requests[i][1] = IF i = 1 THEN start_index - 1 ELSE requests[i - 1][2]
    /\ (Done /\ outcome = "success") =>
          /\ UNION {Selection(requests[i][1], requests[i][2]) : i \in 1..Len(requests)}
                = (start_index - 1)..(end_index - 1)
          /\ SumSizes(requests) = end_index - (start_index - 1)

\* C7 witness: [0, 550) in the blocks [0,200), [200,400), [400,550)
C7_Witness ==
    /\ Done
    /\ outcome = "success"
    /\ start_index = 1
    /\ end_index = 550
    /\ requests = << <<0, 200>>, <<200, 400>>, <<400, 550>> >>

\* planning has been done: the highest index was found and accepted
Planned == highest_index # None /\ outcome # "StartExceedsAvailable"

Min(a, b) == IF a <= b THEN a ELSE b

\* C8: planning keeps the requested start, and the end is the highest index
\* when --end is omitted and min(--end, highest index) when it is given; a
\* range with start <= end <= highest index is kept as it is
C8_RangePlanning ==
    Planned =>
        /\ start_index = args.start
        /\ (args.end = None) => (end_index = Val(highest_index))
        /\ (args.end # None) =>
              (end_index = Min(Val(args.end), Val(highest_index)))
        /\ (args.end # None /\ Val(args.end) <= Val(highest_index)) =>
              (end_index = Val(args.end))

\* C8 witness: --end 550 against a highest index of 450 is cut to 450
C8_Witness ==
    /\ Planned
    /\ args.end = Some(550)
    /\ highest_index = Some(450)
    /\ end_index = 450
    /\ pc = "post"

\* C9: after planning, start <= effective end <= highest index, so the
\* loop does not break before its first block and a run that leaves the loop
\* has requested at least one block
C9_PlannedRangeNonEmpty ==
    /\ Planned =>
          /\ args.start <= end_index
          /\ end_index <= Val(highest_index)
          /\ start_index - 1 < end_index
    /\ (pc = "loop" /\ requests = <<>>) => ~LoopBreaks(blockstart, end_index)
    /\ (pc \in {"remove_zip", "make_archive", "rmtree"}) => (Len(requests) >= 1)

\* C9 witness: the one-index range start = end = highest index is processed
C9_Witness ==
    /\ Planned
    /\ pc = "post"
    /\ args.start = 450
    /\ end_index = 450
    /\ highest_index = Some(450)

PreflightErrors == {"AlbumNotFound", "NoFilesInAlbum", "StartExceedsAvailable"}

\* C10: a run ended by "album not found", "no files in the album" or "start
\* exceeds the highest index" has not created the download directory and has
\* issued no compression request, and is past main()
C10_PreflightBeforeWork ==
    (outcome \in PreflightErrors) =>
        /\ ~dir_created
        /\ requests = <<>>
        /\ downloads = 0
        /\ pc \in {"finally", "done"}

\* C10 witness: start 550 against a highest index of 450
C10_Witness ==
    /\ Done
    /\ outcome = "StartExceedsAvailable"
    /\ args.start = 550
    /\ highest_index = Some(450)
    /\ ~dir_created

\* C11: when the directory of the run's name exists at os.mkdir, the run
\* ends with the collision error; it has issued no compression request and
\* no download, has written or extracted nothing into the old directory,
\* and has made no archive
C11_CollisionNoMerge ==
    /\ (dir_preexisting /\ Planned /\ pc # "mkdir") =>
          (outcome = "FileExistsError")
    /\ (outcome = "FileExistsError") =>
          /\ dir_preexisting
          /\ pc \in {"finally", "done"}
          /\ ExitStatus # 0
    /\ dir_preexisting =>
          /\ ~dir_created
          /\ requests = <<>>
          /\ downloads = 0
          /\ extracts = 0
          /\ dir_files \subseteq {OldFile}
          /\ zip_content = None
          /\ archive = None

\* C11 witness: the run has ended on the collision
C11_Witness ==
    /\ Done
    /\ dir_preexisting
    /\ outcome = "FileExistsError"
    /\ highest_index = Some(450)

\* the errors a failed HTTP step ends the run with: request_or_exit's
\* sys.exit, a body that is not the JSON expected, bytes that are no zip, a
\* link without the album id
HttpStepErrors == {"HttpError", "JSONError", "ReadError", "AttributeError"}

\* the HTTP requests issued so far
HttpCount == page_gets + Len(requests) + total_polls + downloads

\* a failed HTTP step has left main(): the finally clause is all that is left
FailedPastMain ==
    (outcome \in HttpStepErrors) =>
        /\ pc \in {"finally", "done"}
        /\ ExitStatus # 0
        /\ archive = None
        /\ Done => ~dir_exists

\* a step taken after a failed HTTP step issues no request and keeps the error
NoRequestAfterFailure ==
    (outcome \in HttpStepErrors) =>
        /\ HttpCount' = HttpCount
        /\ outcome' = outcome
        /\ pc' = "done"

\* C12: once an HTTP step has failed the run is past main() with a non-zero
\* exit status, issues no further HTTP request, keeps its error, and has no
\* download directory when it has terminated
C12_HttpFailureFatal == []FailedPastMain /\ [][NoRequestAfterFailure]_vars

\* C12 witness: the download of the second block failed, after one progress
\* check; 2 page requests, 2 compression requests, 1 check, 2 downloads
C12_Witness ==
    /\ Done
    /\ outcome = "HttpError"
    /\ Len(requests) = 2
    /\ downloads = 2
    /\ extracts = 1
    /\ total_polls = 1
    /\ HttpCount = 7

\* the extracted files of all the blocks requested
AllBlockFiles ==
    {BlockFiles(requests[i][1], requests[i][2]) : i \in 1..Len(requests)}

\* C13: the finalization starts only after the last block was extracted, and
\* runs in the order: images.zip removed, archive made from the directory,
\* directory removed; the archive holds the extracted files and not
\* images.zip, and only the archive is left at the end
C13_FinalizationOrder ==
    /\ (pc \in {"remove_zip", "make_archive", "rmtree"}) =>
          /\ extracts = Len(requests)
          /\ blockstart = end_index
          /\ dir_exists
    /\ (pc = "remove_zip") => (archive = None /\ ZipFile \in dir_files)
    /\ (pc = "make_archive") => (archive = None /\ ZipFile \notin dir_files)
    /\ (pc = "rmtree") => (archive # None)
    /\ (archive # None) =>
          /\ ZipFile \notin Val(archive)
          /\ Val(archive) = AllBlockFiles
          /\ pc \in {"rmtree", "finally", "done"}
    /\ (outcome = "success") =>
          (archive # None /\ ~dir_exists /\ dir_files = {})

\* C13 witness: a run of two blocks ended with the archive of both
C13_Witness ==
    /\ Done
    /\ outcome = "success"
    /\ ~dir_exists
    /\ archive = Some({BlockFiles(0, 200), BlockFiles(200, 250)})

\* C16: a compression request is issued only when every block requested
\* before has been downloaded and extracted: at most one block is requested
\* and not yet extracted
C16_OneJobOutstanding ==
    /\ extracts <= downloads
    /\ downloads <= Len(requests)
    /\ Len(requests) <= extracts + 1
    /\ (pc = "post") => (downloads = Len(requests) /\ extracts = Len(requests))

\* C16 witness: the third request is about to be issued, two blocks extracted
C16_Witness ==
    /\ pc = "post"
    /\ Len(requests) = 2
    /\ extracts = 2

\* a progress check or the download of the current block has been issued
CodeSentForBlock == polls > 0 \/ (requests # <<>> /\ downloads = Len(requests))

\* C17: the download of a block is issued only after ready = true in its
\* compression answer or readyForDownload = true in one of its progress
\* checks, and the block's progress checks and download carry the code of
\* the block's own compression answer
C17_OwnCodeAfterReady ==
    /\ (pc = "download" \/ (requests # <<>> /\ downloads = Len(requests))) =>
          (ready = Some(TRUE) \/ progress_ready)
    /\ CodeSentForBlock => (sent_code # None /\ sent_code = issued_code)
    /\ (pc \in {"sleep", "poll", "download"}) => (download_code = issued_code)

\* C17 witness: the second block, whose code differs from the first block's,
\* is downloaded after two progress checks
C17_Witness ==
    /\ pc = "extract"
    /\ Len(requests) = 2
    /\ polls = 2
    /\ issued_code = Some("c2")
    /\ sent_code = Some("c2")

\* C18: a run that did not create the download directory leaves a directory
\* of that name that existed before it in place, with its contents
C18_OnlyOwnDirRemoved ==
    (dir_preexisting /\ ~dir_created) =>
        (dir_exists /\ dir_files = {OldFile})

(***************************************************************************)
(* FindAlbumLink on its own: the handlers called with any events           *)
(***************************************************************************)
\* events fed to one FindAlbumLink object
MaxEvents == 5

OtherHref == <<"/", "3", "/", "x">>

\* attribute lists of an <a> tag: no href, the album's href, another href
LinkAttrs ==
    { <<>>, <<<<"href", Some(AlbumHref)>>>>, <<<<"href", Some(OtherHref)>>>> }

StartEvents ==
    {StartTag("a", at) : at \in LinkAttrs} \cup {StartTag("b", <<>>)}

\* text nodes: the album name, the name padded, the name in another case
TextEvents ==
    {Data(t) : t \in {<<"R", "e">>, <<" ", "R", "e", "\n">>, <<"r", "e">>}}

EndEvents == {EndTag("a"), EndTag("b")}

run == <<args, pc, outcome, locals, disk, history, dir_preexisting, web>>

\* FindAlbumLink(parsed_args.album), before any feed
ParserInit ==
    /\ args = [start |-> 1, end |-> None, album |-> AlbumName]
    /\ pc = "feed"
    /\ outcome = "running"
    /\ album_path = None
    /\ album_id = None
    /\ highest_index = None
    /\ start_index = 0
    /\ end_index = 0
    /\ blockstart = 0
    /\ blockend = 0
    /\ download_code = None
    /\ ready = None
    /\ poll_i = 0
    /\ dir_exists = FALSE
    /\ dir_preexisting = FALSE
    /\ page_gets = 0
    /\ issued_code = None
    /\ sent_code = None
    /\ finder = FindAlbumLink_init
    /\ fed = <<>>
    /\ dir_files = {}
    /\ zip_content = None
    /\ archive = None
    /\ dir_created = FALSE
    /\ requests = <<>>
    /\ polls = 0
    /\ sleeps = 0
    /\ total_polls = 0
    /\ downloads = 0
    /\ extracts = 0
    /\ not_ready = 0
    /\ progress_ready = FALSE
    /\ removed_by = <<>>

\* html.parser calls handle_starttag
FeedStartTag ==
    /\ pc = "feed"
    /\ Len(fed) < MaxEvents
    /\ \E e \in StartEvents :
          /\ finder' = FindAlbumLink_handle_starttag(finder, e.tag, e.attrs)
          /\ fed' = Append(fed, e)
    /\ UNCHANGED run

\* html.parser calls handle_data
FeedData ==
    /\ pc = "feed"
    /\ Len(fed) < MaxEvents
    /\ \E e \in TextEvents :
          /\ finder' = FindAlbumLink_handle_data(finder, args.album, e.data)
          /\ fed' = Append(fed, e)
    /\ UNCHANGED run

\* html.parser calls handle_endtag
FeedEndTag ==
    /\ pc = "feed"
    /\ Len(fed) < MaxEvents
    /\ \E e \in EndEvents :
          /\ finder' = FindAlbumLink_handle_endtag(finder, e.tag)
          /\ fed' = Append(fed, e)
    /\ UNCHANGED run

ParserNext == FeedStartTag \/ FeedData \/ FeedEndTag

SpecParser == ParserInit /\ [][ParserNext]_vars

\* the href attribute of a start tag's own attribute list, or None
OwnHref(attrs) == FirstHref(attrs, None)

\* the href of the first anchor, in document order, that carries an href and
\* has a text node equal to the name once trimmed; None without such an
\* anchor.  cur is the href of the anchor the scan is inside of, or None
RECURSIVE FirstMatchingHref(_, _, _)
FirstMatchingHref(events, name, cur) ==
    IF events = <<>> THEN None
    ELSE LET e == Head(events)
         IN  CASE e.type = "start" ->
                    FirstMatchingHref(Tail(events), name,
                                      IF e.tag = "a" THEN OwnHref(e.attrs) ELSE cur)
               [] e.type = "end" ->
                    FirstMatchingHref(Tail(events), name,
                                      IF e.tag = "a" THEN None ELSE cur)
               [] OTHER ->
                    IF cur # None /\ Strip(e.data) = name
                    THEN cur
                    ELSE FirstMatchingHref(Tail(events), name, cur)

\* C15: after any sequence of events the locator's result is the href of
\* the first anchor whose trimmed text equals the album name exactly, the
\* href of that anchor itself; it is None (album not found) without a match
C15_FirstMatchingAnchor ==
    finder.album_path = FirstMatchingHref(fed, args.album, None)

\* every <a> start tag fed so far carried an href
EveryLinkHasHref ==
    \A i \in 1..Len(fed) :
        (fed[i].type = "start" /\ fed[i].tag = "a") => (OwnHref(fed[i].attrs) # None)

\* what the class does: C15 holds as long as every <a> tag has an href; an
\* <a> tag without one leaves the href of an unclosed <a> before it in place
C15_WhenLinksHaveHref ==
    EveryLinkHasHref => C15_FirstMatchingAnchor

\* the statements that run without the server: an enabled one is executed
LocalStep ==
    \/ ValidateArgs
    \/ MakeDir
    \/ NextBlock
    \/ Sleep
    \/ Extract
    \/ RemoveZip
    \/ MakeArchive
    \/ RemoveDir
    \/ Finally

\* the script is inside requests.request, which is called without a timeout
AwaitingResponse == pc \in {"get_listing", "get_album", "post", "poll", "download"}

\* The interpreter runs every local statement; a request returns only when
\* the server answers or the connection fails, and nothing bounds the wait,
\* so no fairness is assumed of the steps that receive a response.
SpecFair == Spec /\ WF_vars(LocalStep)

\* a step that completes a block moves blockstart up, and not past end_index
BlockAdvances ==
    (extracts' = extracts + 1) =>
        (blockstart' > blockstart /\ blockstart' <= end_index)

\* the polling loop of a block is bounded
PollsBounded == polls <= 5 /\ sleeps <= 5

\* the run is over, or a statement can run: no state before the end is stuck
NotStuck == Done \/ ENABLED Next

\* C19: every run terminates: each completed block moves the block start up
\* towards the effective end, a block makes at most 5 progress checks, no
\* state before the end is stuck, and the terminal state is always reached
C19_Terminates ==
    /\ [][BlockAdvances]_vars
    /\ []PollsBounded
    /\ []NotStuck
    /\ <>Done

\* what the code does guarantee: a run reaches its terminal state unless it
\* waits for ever for one response
TerminatesOrWaits == <>Done \/ <>[]AwaitingResponse

====
